---- MODULE Spec2Model ----
(***************************************************************************)
(* One run of the ksef-pdf command line (src/src/cli.ts) together with the *)
(* UPO generator it calls (generatePDFUPOFromParsed).  A run takes the     *)
(* parsed command-line values and one input file, classifies the document, *)
(* dispatches to a builder, asks the renderer for a blob, writes the       *)
(* output file and reports the result.                                     *)
(*                                                                         *)
(* Texts that the code manipulates (paths, footer text) are sequences of   *)
(* one-character strings.  Texts that the code only passes around or       *)
(* compares for equality are TLA+ strings.                                 *)
(***************************************************************************)
EXTENDS Integers, Sequences, FiniteSets, TLC

(* ---------------------------------------------------------------------- *)
(* Bounds                                                                    *)
(* ---------------------------------------------------------------------- *)
MaxPages == 10
MaxBlobSize == 2

(* ---------------------------------------------------------------------- *)
(* Values                                                                    *)
(* ---------------------------------------------------------------------- *)
\* JavaScript undefined for a string-valued option or attribute
NoValue == "<undefined>"

\* a string is truthy unless it is undefined or empty
Truthy(s) == s # NoValue /\ s # ""

InvoiceVersion == {"FA (1)", "FA (2)", "FA (3)"}

\* values of Naglowek.KodFormularza._attributes.kodSystemowy met in input files
KodValues == InvoiceVersion \cup {NoValue, "", "FA (4)"}

\* a normalized tree: which of the two top-level keys it has, and the form code
ParsedXml == [hasFaktura : BOOLEAN, kodSystemowy : KodValues, hasPotwierdzenie : BOOLEAN]

\* the trees the parser can return: a tree without Faktura has no form code
Trees == {t \in ParsedXml : ~t.hasFaktura => t.kodSystemowy = NoValue}

NoTree == [hasFaktura |-> FALSE, kodSystemowy |-> NoValue, hasPotwierdzenie |-> FALSE]

\* what the input path leads to: no file, a file of white space only, text the
\* parser rejects, or text the parser turns into a tree
Files == {[kind |-> k, tree |-> NoTree] : k \in {"missing", "blank", "malformed"}}
           \cup {[kind |-> "xml", tree |-> t] : t \in Trees}

\* input paths (positionals[0]), as character sequences
InputPaths == { <<"d", "/", "f", ".", "x", "m", "l">>,
                <<"F", ".", "X", "M", "L">>,
                <<"u", "p", "o">> }

\* values of --output
OutputArgs == { <<>>, <<"o", ".", "p", "d", "f">> }

\* values of --type, --ksef, --qrcode
TypeArgs == {NoValue, "", "invoice", "upo", "pdf"}
KsefArgs == {NoValue, "", "1234567890-20240101-ABCD1234-EF"}
QrArgs == {NoValue, "", "https://qr"}

Values == [output : OutputArgs, type : TypeArgs, ksef : KsefArgs, qrcode : QrArgs,
           json : BOOLEAN, help : BOOLEAN]

InvoiceBuilders == {"generateFA1", "generateFA2", "generateFA3"}

(* ---------------------------------------------------------------------- *)
(* Text helpers                                                              *)
(* ---------------------------------------------------------------------- *)
UpperChars == <<"A", "B", "C", "D", "E", "F", "G", "H", "I", "J", "K", "L", "M",
                "N", "O", "P", "Q", "R", "S", "T", "U", "V", "W", "X", "Y", "Z">>

LowerChars == <<"a", "b", "c", "d", "e", "f", "g", "h", "i", "j", "k", "l", "m",
                "n", "o", "p", "q", "r", "s", "t", "u", "v", "w", "x", "y", "z">>

toLowerChar(c) ==
  IF \E i \in 1..26 : UpperChars[i] = c
  THEN LowerChars[CHOOSE i \in 1..26 : UpperChars[i] = c]
  ELSE c

toLowerCase(s) == [i \in 1..Len(s) |-> toLowerChar(s[i])]

endsWith(s, suffix) ==
  /\ Len(s) >= Len(suffix)
  /\ SubSeq(s, Len(s) - Len(suffix) + 1, Len(s)) = suffix

\* path.basename: what follows the last separator
basename(path) ==
  LET seps == {i \in 1..Len(path) : path[i] = "/"}
  IN IF seps = {} THEN path
     ELSE SubSeq(path, (CHOOSE i \in seps : \A j \in seps : j <= i) + 1, Len(path))

DigitChars == <<"0", "1", "2", "3", "4", "5", "6", "7", "8", "9">>

\* Number.prototype.toString and number-to-string concatenation, base 10
RECURSIVE NatToStr(_)
NatToStr(n) ==
  IF n < 10 THEN <<DigitChars[n + 1]>>
  ELSE NatToStr(n \div 10) \o <<DigitChars[(n % 10) + 1]>>

(* ---------------------------------------------------------------------- *)
(* Pure functions of cli.ts                                                  *)
(* ---------------------------------------------------------------------- *)
ErrFileNotFound == "File not found"
ErrEmpty == "XML file is empty"
ErrParse == "Failed to parse XML"
ErrInvalidType == "Invalid document type"
ErrDetect == "Unable to detect document type. Use -t invoice or -t upo"
ErrNoFaktura == "Invalid invoice XML: missing Faktura element"
ErrNoVersion == "Invalid invoice XML: missing version information"
ErrNoBlob == "Failed to generate PDF blob"
ErrUpoReject == "Error"
ErrTypeError == "TypeError"
ErrWrite == "write failed"

\* detectDocumentType: the type, or "" when it throws
detectDocumentType_PotwierdzenieFirst(xml) ==
  IF xml.hasPotwierdzenie THEN "upo"
  ELSE IF xml.hasFaktura THEN "invoice"
  ELSE ""

detectDocumentType(xml) ==
  IF xml.hasFaktura THEN "invoice"
  ELSE IF xml.hasPotwierdzenie THEN "upo"
  ELSE ""

\* validateDocumentType: TRUE when it returns, FALSE when it throws
validateDocumentType(type) ==
  \/ ~Truthy(type)
  \/ ~(type # "invoice" /\ type # "upo")

\* processFile line 205: values.type || detectDocumentType(parsedXml)
\* the left operand decides whether the right one is evaluated
consultsDetection_Always(type) == TRUE

consultsDetection(type) == ~Truthy(type)

\* generatePDFByVersion: the builder the switch selects, NoValue when no case matches
builderOfVersion_Shifted(version) ==
  CASE version = "FA (1)" -> "generateFA1"
    [] version = "FA (2)" -> "generateFA3"
    [] version = "FA (3)" -> "generateFA3"
    [] OTHER -> NoValue

builderOfVersion(version) ==
  CASE version = "FA (1)" -> "generateFA1"
    [] version = "FA (2)" -> "generateFA2"
    [] version = "FA (3)" -> "generateFA3"
    [] OTHER -> NoValue

\* generateInvoicePDF lines 148-151
additionalDataOf_NoDefault(nrKSeF, qrCode) == [nrKSeF |-> nrKSeF, qrCode |-> qrCode]

additionalDataOf(nrKSeF, qrCode) ==
  [nrKSeF |-> IF Truthy(nrKSeF) THEN nrKSeF ELSE "CLI-GENERATED", qrCode |-> qrCode]

NoAdditionalData == [nrKSeF |-> NoValue, qrCode |-> NoValue]

\* getOutputPath
getOutputPath(inputPath, outputArg) ==
  IF outputArg # <<>> THEN outputArg
  ELSE IF endsWith(toLowerCase(inputPath), <<".", "x", "m", "l">>)
       THEN SubSeq(inputPath, 1, Len(inputPath) - 4) \o <<".", "p", "d", "f">>
       ELSE inputPath \o <<".", "p", "d", "f">>

\* log, logError, outputJson: the stream after the call
NoResult == [success |-> FALSE, error |-> "", input |-> <<>>, output |-> <<>>, type |-> "", size |-> 0]

LogLine(message) == [kind |-> "log", text |-> message, result |-> NoResult]

log_Unconditional(isJsonMode, stream, message) == Append(stream, LogLine(message))

log(isJsonMode, stream, message) ==
  IF isJsonMode THEN stream ELSE Append(stream, LogLine(message))

logError(isJsonMode, stream, message) ==
  IF isJsonMode THEN stream
  ELSE Append(stream, [kind |-> "error", text |-> message, result |-> NoResult])

outputJson(stream, result) ==
  Append(stream, [kind |-> "json", text |-> "", result |-> result])

\* generateInvoicePDF lines 156-162, the callback given to getBlob:
\* TRUE resolves with the blob, FALSE rejects
invoiceBlobResolves_Always(hasBlob) == TRUE

invoiceBlobResolves(hasBlob) == ~(~hasBlob)

\* generatePDFUPOFromParsed lines 297-303, the callback given to getBlob
upoBlobResolves(hasBlob) == hasBlob

\* generatePDFUPOFromParsed: the footer function of the document definition
footer(currentPage, pageCount) ==
  [text |-> NatToStr(currentPage) \o <<" ", "z", " ">> \o NatToStr(pageCount),
   alignment |-> "right",
   margin |-> <<0, 0, 20, 0>>]

\* generatePDFUPOFromParsed: page metadata of the document definition
NoDocDefinition == [created |-> FALSE, pageSize |-> "", pageOrientation |-> "", footer |-> ""]

upoDocDefinition_Portrait ==
  [created |-> TRUE, pageSize |-> "A4", pageOrientation |-> "portrait", footer |-> "function"]

upoDocDefinition ==
  [created |-> TRUE, pageSize |-> "A4", pageOrientation |-> "landscape", footer |-> "function"]

\* generateFA1, generateFA2, generateFA3: page metadata of the document they create
invoiceDocDefinition ==
  [created |-> TRUE, pageSize |-> "A4", pageOrientation |-> "portrait", footer |-> ""]

NoBlob == [has |-> FALSE, size |-> 0, pages |-> 0]

\* what the renderer can pass to the getBlob callback: nothing, or a blob of
\* some size for a document it laid out on some number of pages
RenderOutcomes ==
  {NoBlob} \cup {[has |-> TRUE, size |-> s, pages |-> p] : s \in 1..MaxBlobSize, p \in 1..MaxPages}

(* ---------------------------------------------------------------------- *)
(* State                                                                     *)
(* ---------------------------------------------------------------------- *)
VARIABLES
  values,          \* parseArgs values
  inputPath,       \* positionals[0]
  file,            \* what the input path leads to
  pc,              \* position of the run
  parsedXml,       \* processFile: parsedXml
  docType,         \* processFile: docType ("" before it is set)
  detectCalls,     \* number of calls of detectDocumentType
  additionalData,  \* generateInvoicePDF: additionalData
  builderLog,      \* calls of builders, in order, with what each received
  pdf,             \* document definition handed to the renderer
  getBlobCalls,    \* number of calls of getBlob
  callbackCalls,   \* number of times the getBlob callback ran
  rendered,        \* what the renderer passed to the getBlob callback
  blob,            \* blob the generation promise resolved with
  footers,         \* footer the renderer obtained for each page
  writeCalls,      \* number of calls of writeFileSync
  outFile,         \* output file: name and bytes on disk
  result,          \* processFile's SuccessResult
  err,             \* message of the thrown error ("" when none)
  stdout,
  stderr,
  exitCode         \* -1 while the process runs

vars == <<values, inputPath, file, pc, parsedXml, docType, detectCalls, additionalData,
          builderLog, pdf, getBlobCalls, callbackCalls, rendered, blob, footers, writeCalls,
          outFile, result, err, stdout, stderr, exitCode>>

inputVars == <<values, inputPath, file>>

genVars == <<additionalData, builderLog, pdf, getBlobCalls, callbackCalls, rendered, blob, footers>>

outVars == <<writeCalls, outFile, result, stdout, stderr, exitCode>>

isJsonMode == values.json

Init ==
  /\ values \in Values
  /\ inputPath \in InputPaths
  /\ file \in Files
  /\ pc = "top"
  /\ parsedXml = NoTree
  /\ docType = ""
  /\ detectCalls = 0
  /\ additionalData = NoAdditionalData
  /\ builderLog = <<>>
  /\ pdf = NoDocDefinition
  /\ getBlobCalls = 0
  /\ callbackCalls = 0
  /\ rendered = NoBlob
  /\ blob = NoBlob
  /\ footers = <<>>
  /\ writeCalls = 0
  /\ outFile = [name |-> <<>>, bytes |-> 0]
  /\ result = NoResult
  /\ err = ""
  /\ stdout = <<>>
  /\ stderr = <<>>
  /\ exitCode = -1

\* a throw inside main's try block: control goes to the catch clause
Throw(message) ==
  /\ err' = message
  /\ pc' = "catch"

(* ---------------------------------------------------------------------- *)
(* Steps of the run                                                          *)
(* ---------------------------------------------------------------------- *)
\* lines 92-95: help requested
ShowHelp ==
  /\ pc = "top"
  /\ values.help
  /\ stdout' = Append(stdout, [kind |-> "help", text |-> "HELP_TEXT", result |-> NoResult])
  /\ exitCode' = 0
  /\ pc' = "exited"
  /\ UNCHANGED <<inputVars, parsedXml, docType, detectCalls, genVars, writeCalls, outFile,
                 result, err, stderr>>

\* main, lines 230-235: enters processFile
Main ==
  /\ pc = "top"
  /\ ~values.help
  /\ pc' = "processFile"
  /\ UNCHANGED <<inputVars, parsedXml, docType, detectCalls, genVars, outVars, err>>

\* processFile, lines 189-200
ProcessFileLoad ==
  /\ pc = "processFile"
  /\ IF file.kind = "missing"
     THEN /\ Throw(ErrFileNotFound)
          /\ UNCHANGED stdout
     ELSE /\ stdout' = log(isJsonMode, stdout, "Loading")
          /\ IF file.kind = "blank"
             THEN Throw(ErrEmpty)
             ELSE /\ pc' = "parse"
                  /\ UNCHANGED err
  /\ UNCHANGED <<inputVars, parsedXml, docType, detectCalls, genVars, writeCalls, outFile,
                 result, stderr, exitCode>>

ParseXmlContent_Swallow ==
  /\ pc = "parse"
  /\ parsedXml' = file.tree
  /\ pc' = "validate"
  /\ UNCHANGED <<inputVars, docType, detectCalls, genVars, outVars, err>>

\* parseXmlContent, called at line 202
ParseXmlContent ==
  /\ pc = "parse"
  /\ IF file.kind = "malformed"
     THEN /\ Throw(ErrParse)
          /\ UNCHANGED parsedXml
     ELSE /\ parsedXml' = file.tree
          /\ pc' = "validate"
          /\ UNCHANGED err
  /\ UNCHANGED <<inputVars, docType, detectCalls, genVars, outVars>>

\* line 204
ValidateDocumentType ==
  /\ pc = "validate"
  /\ IF validateDocumentType(values.type)
     THEN /\ pc' = "docType"
          /\ UNCHANGED err
     ELSE Throw(ErrInvalidType)
  /\ UNCHANGED <<inputVars, parsedXml, docType, detectCalls, genVars, outVars>>

\* lines 206-213 once docType is known: two log lines, then the call for the type
AfterDocType(type) ==
  /\ docType' = type
  /\ stdout' = log(isJsonMode,
                   log(isJsonMode, stdout, IF type = "invoice" THEN "Type: Invoice" ELSE "Type: UPO"),
                   "Generating PDF...")
  /\ pc' = IF type = "invoice" THEN "generateInvoicePDF" ELSE "generateUPOPDF"
  /\ UNCHANGED err

\* line 205 with a truthy values.type: the override is the type, detection is not evaluated
UseTypeOverride ==
  /\ pc = "docType"
  /\ ~consultsDetection(values.type)
  /\ AfterDocType(values.type)
  /\ UNCHANGED <<inputVars, parsedXml, detectCalls, genVars, writeCalls, outFile, result,
                 stderr, exitCode>>

\* line 205 with a falsy values.type: detectDocumentType is called
DetectDocumentType ==
  /\ pc = "docType"
  /\ consultsDetection(values.type)
  /\ detectCalls' = detectCalls + 1
  /\ IF detectDocumentType(parsedXml) = ""
     THEN /\ Throw(ErrDetect)
          /\ UNCHANGED <<docType, stdout>>
     ELSE AfterDocType(detectDocumentType(parsedXml))
  /\ UNCHANGED <<inputVars, parsedXml, genVars, writeCalls, outFile, result, stderr, exitCode>>

\* generateInvoicePDF, lines 131-153 up to the await
GenerateInvoicePDF ==
  /\ pc = "generateInvoicePDF"
  /\ IF ~parsedXml.hasFaktura
     THEN /\ Throw(ErrNoFaktura)
          /\ UNCHANGED additionalData
     ELSE IF ~Truthy(parsedXml.kodSystemowy)
     THEN /\ Throw(ErrNoVersion)
          /\ UNCHANGED additionalData
     ELSE /\ additionalData' = additionalDataOf(values.ksef, values.qrcode)
          /\ pc' = "generatePDFByVersion"
          /\ UNCHANGED err
  /\ UNCHANGED <<inputVars, parsedXml, docType, detectCalls, builderLog, pdf, getBlobCalls,
                 callbackCalls, rendered, blob, footers, outVars>>

\* generatePDFByVersion, lines 110-129: the switch calls one builder, or none when no
\* case matches and the function returns undefined
GeneratePDFByVersion ==
  /\ pc = "generatePDFByVersion"
  /\ LET builder == builderOfVersion(parsedXml.kodSystemowy)
     IN IF builder = NoValue
        THEN UNCHANGED <<builderLog, pdf>>
        ELSE /\ builderLog' = Append(builderLog, [builder |-> builder, root |-> "Faktura",
                                                  additionalData |-> additionalData])
             /\ pdf' = invoiceDocDefinition
  /\ pc' = "invoiceGetBlob"
  /\ UNCHANGED <<inputVars, parsedXml, docType, detectCalls, additionalData, getBlobCalls,
                 callbackCalls, rendered, blob, footers, outVars, err>>

\* generateInvoicePDF, lines 155-156: pdf.getBlob(...) inside the promise executor;
\* with pdf undefined the member access throws and the promise rejects
InvoiceGetBlob ==
  /\ pc = "invoiceGetBlob"
  /\ IF ~pdf.created
     THEN /\ Throw(ErrTypeError)
          /\ UNCHANGED getBlobCalls
     ELSE /\ getBlobCalls' = getBlobCalls + 1
          /\ pc' = "invoiceBlobCallback"
          /\ UNCHANGED err
  /\ UNCHANGED <<inputVars, parsedXml, docType, detectCalls, additionalData, builderLog, pdf,
                 callbackCalls, rendered, blob, footers, outVars>>

\* generateInvoicePDF, lines 156-162: the renderer calls back
InvoiceBlobCallback ==
  /\ pc = "invoiceBlobCallback"
  /\ \E outcome \in RenderOutcomes :
       /\ rendered' = outcome
       /\ callbackCalls' = callbackCalls + 1
       /\ IF invoiceBlobResolves(outcome.has)
          THEN /\ blob' = outcome
               /\ pc' = "write"
               /\ UNCHANGED err
          ELSE /\ Throw(ErrNoBlob)
               /\ UNCHANGED blob
  /\ UNCHANGED <<inputVars, parsedXml, docType, detectCalls, additionalData, builderLog, pdf,
                 getBlobCalls, footers, outVars>>

\* generateUPOPDF, lines 166-170, and generatePDFUPOFromParsed, lines 281-295:
\* the generator receives xml.Potwierdzenie as it is; generateNaglowekUPO and
\* generateDokumnetUPO either build content from an undefined root or throw on it
GenerateUPOPDF ==
  /\ pc = "generateUPOPDF"
  /\ builderLog' = Append(builderLog,
                          [builder |-> "generatePDFUPOFromParsed",
                           root |-> IF parsedXml.hasPotwierdzenie THEN "Potwierdzenie" ELSE NoValue,
                           additionalData |-> NoAdditionalData])
  /\ \E throws \in BOOLEAN :
       /\ throws => ~parsedXml.hasPotwierdzenie
       /\ IF throws
          THEN /\ Throw(ErrTypeError)
               /\ UNCHANGED pdf
          ELSE /\ pdf' = upoDocDefinition
               /\ pc' = "upoGetBlob"
               /\ UNCHANGED err
  /\ UNCHANGED <<inputVars, parsedXml, docType, detectCalls, additionalData, getBlobCalls,
                 callbackCalls, rendered, blob, footers, outVars>>

\* generatePDFUPOFromParsed, lines 296-297: createPdf(docDefinition).getBlob(...)
UpoGetBlob ==
  /\ pc = "upoGetBlob"
  /\ getBlobCalls' = getBlobCalls + 1
  /\ pc' = "upoBlobCallback"
  /\ UNCHANGED <<inputVars, parsedXml, docType, detectCalls, additionalData, builderLog, pdf,
                 callbackCalls, rendered, blob, footers, outVars, err>>

\* generatePDFUPOFromParsed, lines 297-303: the renderer calls back; a renderer that
\* produced a blob has paginated and asked the footer function for every page
UpoBlobCallback ==
  /\ pc = "upoBlobCallback"
  /\ \E outcome \in RenderOutcomes :
       /\ rendered' = outcome
       /\ callbackCalls' = callbackCalls + 1
       /\ footers' = [p \in 1..outcome.pages |-> footer(p, outcome.pages)]
       /\ IF upoBlobResolves(outcome.has)
          THEN /\ blob' = outcome
               /\ pc' = "write"
               /\ UNCHANGED err
          ELSE /\ Throw(ErrUpoReject)
               /\ UNCHANGED blob
  /\ UNCHANGED <<inputVars, parsedXml, docType, detectCalls, additionalData, builderLog, pdf,
                 getBlobCalls, outVars>>

\* processFile, lines 215-227: pdfBlob.arrayBuffer() throws on an undefined blob;
\* writeFileSync either writes the whole buffer or fails having written less
WriteOutput ==
  /\ pc = "write"
  /\ IF ~blob.has
     THEN /\ Throw(ErrTypeError)
          /\ UNCHANGED <<writeCalls, outFile, result>>
     ELSE /\ writeCalls' = writeCalls + 1
          /\ \E written \in 0..blob.size :
               /\ outFile' = [name |-> getOutputPath(inputPath, values.output), bytes |-> written]
               /\ IF written = blob.size
                  THEN /\ result' = [success |-> TRUE, error |-> "",
                                     input |-> basename(inputPath),
                                     output |-> basename(getOutputPath(inputPath, values.output)),
                                     type |-> docType,
                                     size |-> blob.size]
                       /\ pc' = "report"
                       /\ UNCHANGED err
                  ELSE /\ Throw(ErrWrite)
                       /\ UNCHANGED result
  /\ UNCHANGED <<inputVars, parsedXml, docType, detectCalls, genVars, stdout, stderr, exitCode>>

\* main, lines 237-243
MainSuccess ==
  /\ pc = "report"
  /\ stdout' = IF values.json
               THEN outputJson(stdout, result)
               ELSE log(isJsonMode, log(isJsonMode, stdout, "PDF saved"), "Size")
  /\ pc' = "returned"
  /\ UNCHANGED <<inputVars, parsedXml, docType, detectCalls, genVars, writeCalls, outFile,
                 result, err, stderr, exitCode>>

\* main has returned and nothing is pending: the process ends with code 0
ProcessEnd ==
  /\ pc = "returned"
  /\ exitCode' = 0
  /\ pc' = "exited"
  /\ UNCHANGED <<inputVars, parsedXml, docType, detectCalls, genVars, writeCalls, outFile,
                 result, err, stdout, stderr>>

\* main, lines 244-259
MainCatch ==
  /\ pc = "catch"
  /\ LET errorResult == [success |-> FALSE, error |-> err, input |-> basename(inputPath),
                         output |-> <<>>, type |-> "", size |-> 0]
     IN IF values.json
        THEN /\ stdout' = outputJson(stdout, errorResult)
             /\ UNCHANGED stderr
        ELSE /\ stderr' = logError(isJsonMode, stderr, err)
             /\ UNCHANGED stdout
  /\ exitCode' = 1
  /\ pc' = "exited"
  /\ UNCHANGED <<inputVars, parsedXml, docType, detectCalls, genVars, writeCalls, outFile,
                 result, err>>

Next ==
  \/ ShowHelp
  \/ Main
  \/ ProcessFileLoad
  \/ ParseXmlContent
  \/ ValidateDocumentType
  \/ UseTypeOverride
  \/ DetectDocumentType
  \/ GenerateInvoicePDF
  \/ GeneratePDFByVersion
  \/ InvoiceGetBlob
  \/ InvoiceBlobCallback
  \/ GenerateUPOPDF
  \/ UpoGetBlob
  \/ UpoBlobCallback
  \/ WriteOutput
  \/ MainSuccess
  \/ ProcessEnd
  \/ MainCatch

Spec == Init /\ [][Next]_vars

(* ---------------------------------------------------------------------- *)
(* Properties                                                                *)
(* ---------------------------------------------------------------------- *)
\* positions of a run whose document has been handed to the renderer
AfterRender == {"write", "report", "returned", "catch", "exited"}

\* positions of a run that has its document type and has not failed
AfterDocType_Positions ==
  {"generateInvoicePDF", "generatePDFByVersion", "invoiceGetBlob", "invoiceBlobCallback",
   "generateUPOPDF", "upoGetBlob", "upoBlobCallback", "write", "report", "returned"}

\* C1: without a type override, detectDocumentType answers 'invoice' for every tree
\* with a Faktura key (also when Potwierdzenie is present), 'upo' for every other
\* tree with a Potwierdzenie key, and otherwise throws the unable-to-detect error
\* and yields no type.
C1_DetectByTopLevelKeys ==
  detectCalls > 0 =>
    /\ ~Truthy(values.type)
    /\ IF parsedXml.hasFaktura THEN docType = "invoice" /\ err # ErrDetect
       ELSE IF parsedXml.hasPotwierdzenie THEN docType = "upo" /\ err # ErrDetect
       ELSE docType = "" /\ err = ErrDetect /\ builderLog = <<>>

C1_Witness ==
  /\ detectCalls = 1
  /\ parsedXml.hasFaktura
  /\ parsedXml.hasPotwierdzenie
  /\ docType = "invoice"

\* C2: an invoice whose form code is absent or is none of 'FA (1)', 'FA (2)',
\* 'FA (3)' ends with the version failure of generateInvoicePDF, without a builder
\* call, without a getBlob call and without output.
C2_UnknownVersionFails ==
  (/\ pc = "exited"
   /\ docType = "invoice"
   /\ parsedXml.hasFaktura
   /\ parsedXml.kodSystemowy \notin InvoiceVersion)
  => /\ err = ErrNoVersion
     /\ builderLog = <<>>
     /\ getBlobCalls = 0
     /\ writeCalls = 0

\* C3: a type override 'invoice' or 'upo' is the document type for every tree,
\* detectDocumentType is called only without an override, and an override never
\* ends in the unable-to-detect error.
C3_OverrideBypassesDetection ==
  /\ detectCalls > 0 => ~Truthy(values.type)
  /\ values.type \in {"invoice", "upo"} =>
       /\ detectCalls = 0
       /\ err # ErrDetect
       /\ docType \in {"", values.type}
       /\ pc \in AfterDocType_Positions => docType = values.type
       /\ pc \in {"generateInvoicePDF", "generatePDFByVersion", "invoiceGetBlob",
                   "invoiceBlobCallback"} => values.type = "invoice"
       /\ pc \in {"generateUPOPDF", "upoGetBlob", "upoBlobCallback"} => values.type = "upo"

C3_Witness ==
  /\ values.type = "upo"
  /\ parsedXml.hasFaktura
  /\ ~parsedXml.hasPotwierdzenie
  /\ docType = "upo"
  /\ pc = "generateUPOPDF"

\* C4: for each version v of 'FA (1)', 'FA (2)', 'FA (3)' the dispatch calls the
\* builder of v once and no other builder; a document of type 'upo' calls only the
\* UPO generator.
C4_DispatchOneToOne ==
  /\ Len(builderLog) <= 1
  /\ \A i \in 1..Len(builderLog) :
       /\ docType = "upo" => builderLog[i].builder = "generatePDFUPOFromParsed"
       /\ docType = "invoice" =>
            /\ parsedXml.kodSystemowy = "FA (1)" => builderLog[i].builder = "generateFA1"
            /\ parsedXml.kodSystemowy = "FA (2)" => builderLog[i].builder = "generateFA2"
            /\ parsedXml.kodSystemowy = "FA (3)" => builderLog[i].builder = "generateFA3"
            /\ builderLog[i].builder \in InvoiceBuilders
  /\ (pc = "invoiceGetBlob" /\ parsedXml.kodSystemowy \in InvoiceVersion) => Len(builderLog) = 1
  /\ pc = "upoGetBlob" => Len(builderLog) = 1

C4_Witness ==
  /\ pc = "invoiceGetBlob"
  /\ parsedXml.kodSystemowy = "FA (2)"
  /\ Len(builderLog) = 1
  /\ builderLog[1].builder = "generateFA2"

\* failures that precede the write
FailuresBeforeWrite ==
  {ErrFileNotFound, ErrEmpty, ErrParse, ErrInvalidType, ErrDetect, ErrNoFaktura, ErrNoVersion,
   ErrNoBlob, ErrUpoReject}

\* C5: writeFileSync is called at most once and only after classification, build
\* and a blob from the renderer; a run with a missing, empty or unparsable file, an
\* invalid or undetectable type, a missing version or a renderer failure leaves no
\* output bytes.
C5_WriteOnlyAfterBlob ==
  /\ writeCalls <= 1
  /\ outFile.bytes > 0 => writeCalls = 1
  /\ writeCalls = 1 =>
       /\ docType \in {"invoice", "upo"}
       /\ Len(builderLog) = 1
       /\ pdf.created
       /\ callbackCalls = 1
       /\ rendered.has
       /\ blob = rendered
       /\ outFile.bytes <= blob.size
  /\ file.kind # "xml" => writeCalls = 0 /\ outFile.bytes = 0
  /\ (Truthy(values.type) /\ values.type \notin {"invoice", "upo"}) => writeCalls = 0
  /\ err \in FailuresBeforeWrite => writeCalls = 0 /\ outFile.bytes = 0

C5_Witness ==
  /\ pc = "exited"
  /\ writeCalls = 1
  /\ blob.has
  /\ outFile.bytes = blob.size
  /\ exitCode = 0

\* C6: a run that processes an input path exits with a non-zero code exactly when
\* a step failed; a failed run emits one error message (one error line, or in JSON
\* mode one JSON object with success = false) and exits with code 1; a successful
\* run exits with code 0 and in JSON mode emits one JSON object with input name,
\* output name, document type and output size.
C6_ExitCodeAndSingleMessage ==
  (pc = "exited" /\ ~values.help) =>
    /\ exitCode \in {0, 1}
    /\ exitCode # 0 <=> err # ""
    /\ err # "" =>
         IF values.json
         THEN /\ Len(stdout) = 1
              /\ stdout[1].kind = "json"
              /\ ~stdout[1].result.success
              /\ stdout[1].result.error = err
              /\ stderr = <<>>
         ELSE /\ Len(stderr) = 1
              /\ stderr[1].kind = "error"
              /\ stderr[1].text = err
              /\ \A i \in 1..Len(stdout) : stdout[i].kind = "log"
    /\ err = "" =>
         /\ stderr = <<>>
         /\ writeCalls = 1
         /\ IF values.json
            THEN /\ Len(stdout) = 1
                 /\ stdout[1].kind = "json"
                 /\ stdout[1].result.success
                 /\ stdout[1].result.input = basename(inputPath)
                 /\ stdout[1].result.output = basename(outFile.name)
                 /\ stdout[1].result.type = docType
                 /\ stdout[1].result.size = outFile.bytes
            ELSE \A i \in 1..Len(stdout) : stdout[i].kind = "log"

C6_Witness ==
  /\ pc = "exited"
  /\ values.json
  /\ exitCode = 1
  /\ err = ErrNoBlob
  /\ Len(stdout) = 1

\* reading a decimal numeral back
DigitValue(c) == CHOOSE d \in 0..9 : DigitChars[d + 1] = c

IsNumeral(s) == Len(s) > 0 /\ \A i \in 1..Len(s) : \E d \in 0..9 : DigitChars[d + 1] = s[i]

RECURSIVE StrToNat(_)
StrToNat(s) ==
  IF Len(s) = 0 THEN 0
  ELSE 10 * StrToNat(SubSeq(s, 1, Len(s) - 1)) + DigitValue(s[Len(s)])

\* text reads "<page> z <count>"
ReadsPageOfCount(text, page, count) ==
  \E i \in 3..(Len(text) - 2) :
    /\ SubSeq(text, i - 1, i + 1) = <<" ", "z", " ">>
    /\ IsNumeral(SubSeq(text, 1, i - 2))
    /\ StrToNat(SubSeq(text, 1, i - 2)) = page
    /\ IsNumeral(SubSeq(text, i + 2, Len(text)))
    /\ StrToNat(SubSeq(text, i + 2, Len(text))) = count

C8_SuppliedNumberKept ==
  \A i \in 1..Len(builderLog) :
    IF builderLog[i].builder \in InvoiceBuilders
    THEN /\ values.ksef # NoValue => builderLog[i].additionalData.nrKSeF = values.ksef
         /\ values.ksef = NoValue => builderLog[i].additionalData.nrKSeF = "CLI-GENERATED"
         /\ builderLog[i].additionalData.qrCode = values.qrcode
    ELSE builderLog[i].additionalData = NoAdditionalData

\* C8 (amended): the AdditionalData an invoice builder receives always carries a
\* non-empty registry number: the caller's when a non-empty one was given,
\* 'CLI-GENERATED' when none or an empty one was given; the QR payload is the
\* caller's, absent when absent.  The UPO generator receives neither.
C8_AdditionalData ==
  \A i \in 1..Len(builderLog) :
    IF builderLog[i].builder \in InvoiceBuilders
    THEN /\ Truthy(builderLog[i].additionalData.nrKSeF)
         /\ Truthy(values.ksef) => builderLog[i].additionalData.nrKSeF = values.ksef
         /\ ~Truthy(values.ksef) => builderLog[i].additionalData.nrKSeF = "CLI-GENERATED"
         /\ builderLog[i].additionalData.qrCode = values.qrcode
    ELSE builderLog[i].additionalData = NoAdditionalData

C8_Witness ==
  /\ Len(builderLog) = 1
  /\ builderLog[1].builder \in InvoiceBuilders
  /\ values.ksef = ""
  /\ values.qrcode = NoValue
  /\ builderLog[1].additionalData = [nrKSeF |-> "CLI-GENERATED", qrCode |-> NoValue]

\* C9: on both paths a generation call that hands a document to the renderer calls
\* getBlob once and its callback runs once; given a blob the promise resolves with
\* that blob, given none it rejects and the run fails; getBlob is never called a
\* second time.
C9_RendererOnce ==
  /\ getBlobCalls <= 1
  /\ callbackCalls <= getBlobCalls
  /\ (pdf.created /\ pc \in AfterRender) => getBlobCalls = 1 /\ callbackCalls = 1
  /\ (callbackCalls = 1 /\ rendered.has) => blob = rendered
  /\ (callbackCalls = 1 /\ ~rendered.has) =>
       /\ blob = NoBlob
       /\ err = IF docType = "invoice" THEN ErrNoBlob ELSE ErrUpoReject
       /\ writeCalls = 0
       /\ pc \in {"catch", "exited"}
       /\ pc = "exited" => exitCode = 1

C9_Witness ==
  /\ pc = "exited"
  /\ docType = "upo"
  /\ getBlobCalls = 1
  /\ callbackCalls = 1
  /\ ~rendered.has
  /\ exitCode = 1

\* C10: a document of type 'invoice' without a Faktura element, and a document of
\* type 'upo' without a Potwierdzenie element, fail with a missing-structure error
\* before any builder is called; no builder receives an undefined root.
C10_MissingStructureFails ==
  /\ \A i \in 1..Len(builderLog) : builderLog[i].root # NoValue
  /\ (pc = "exited" /\ docType = "invoice" /\ ~parsedXml.hasFaktura) =>
       err = ErrNoFaktura /\ builderLog = <<>>
  /\ (pc = "exited" /\ docType = "upo" /\ ~parsedXml.hasPotwierdzenie) =>
       err # "" /\ builderLog = <<>>

====
